---------------------------- MODULE Spec2Model ----------------------------
(***************************************************************************)
(* Translation between vulnerability reports and CVE JSON 5.0 records      *)
(* (package cve5): FromReport / versionRangeToVersionRange in one          *)
(* direction, cve5ToReport / affectedToModule / convertVersions /          *)
(* toVersionRange / toUnsupported in the other.                            *)
(*                                                                         *)
(* Go strings are modelled as sequences of one-character strings, so that  *)
(* the regular expressions, strings.HasSuffix / HasPrefix and fmt.Sprintf  *)
(* are computed on characters.  Strings that the code only copies or       *)
(* compares as a whole (identifiers, the version type tag, symbol and      *)
(* platform names, error messages) are TLA+ strings.  A nil pointer and a  *)
(* nil slice are the empty sequence.  The free-text fields of a report     *)
(* (summary, description, references, credits) are copied through by the   *)
(* code without influencing any other field and are left out.              *)
(***************************************************************************)
EXTENDS Integers, Sequences, FiniteSets, TLC

VARIABLES pc, r, cve, err, modulePath, out

vars == <<pc, r, cve, err, modulePath, out>>

---------------------------------------------------------------------------
(* String literals *)

Empty == <<>>
versionZero == <<"0">>
typeSemver == "semver"
na == <<"n", "/", "a">>
StatusAffected == <<"a", "f", "f", "e", "c", "t", "e", "d">>
StatusUnaffected == <<"u", "n", "a", "f", "f", "e", "c", "t", "e", "d">>
GoOrgUUID == "1bb62c36-49e3-4200-9d77-64a1400537cc"

V100 == <<"1", ".", "0", ".", "0">>
V120 == <<"1", ".", "2", ".", "0">>
V130 == <<"1", ".", "3", ".", "0">>
V200 == <<"2", ".", "0", ".", "0">>
V300 == <<"3", ".", "0", ".", "0">>
VBad == <<"1", ".", "x">>
PatA == <<">", "=", " ", "1", ".", "0", ".", "0", ",", " ", "<", " ", "2", ".", "0", ".", "0">>
PatB == <<"<", " ", "3", ".", "0", ".", "0">>
PatAA == PatA \o <<",", " ">> \o PatB
PatANoB == <<">", "=", " ", "1", ".", "0", ".", "0", ",", " ", "<", " ">>
PatLE == <<"<", "=", " ", "1", ".", "0", ".", "0">>

PathFooBar == <<"g", "o", "l", "a", "n", "g", ".", "o", "r", "g", "/", "x", "/", "f", "o", "o", "/", "b", "a", "r">>
PathFoo == <<"g", "o", "l", "a", "n", "g", ".", "o", "r", "g", "/", "x", "/", "f", "o", "o">>
SufBar == <<"f", "o", "o", "/", "b", "a", "r">>
PathOther == <<"e", "x", "a", "m", "p", "l", "e", ".", "c", "o", "m", "/", "b", "a", "z">>
PathHTTP == <<"n", "e", "t", "/", "h", "t", "t", "p">>
PathCmdGo == <<"c", "m", "d", "/", "g", "o">>

---------------------------------------------------------------------------
(* Library functions on strings *)

HasPrefix(s, prefix) ==
    /\ Len(prefix) <= Len(s)
    /\ SubSeq(s, 1, Len(prefix)) = prefix

HasSuffix(s, suffix) ==
    /\ Len(suffix) <= Len(s)
    /\ SubSeq(s, Len(s) - Len(suffix) + 1, Len(s)) = suffix

\* "." of a Go regular expression matches every character but a newline.
Dots(s) == \A i \in 1..Len(s) : s[i] # "\n"

SetMax(S) == CHOOSE x \in S : \A y \in S : y <= x

\* regexp `^>= (.+), < (.+)$`, FindStringSubmatch: <<whole, group 1, group 2>>
\* or <<>>.  The first group is greedy: of all the ways to split the string
\* it takes the longest first group.
introducedFixedRE(s) ==
    LET ge == <<">", "=", " ">>
        sep == <<",", " ", "<", " ">>
        ks == {k \in 1..Len(s) :
                 /\ HasPrefix(s, ge)
                 /\ Len(ge) + k + Len(sep) + 1 <= Len(s)
                 /\ SubSeq(s, Len(ge) + k + 1, Len(ge) + k + Len(sep)) = sep
                 /\ Dots(SubSeq(s, Len(ge) + 1, Len(ge) + k))
                 /\ Dots(SubSeq(s, Len(ge) + k + Len(sep) + 1, Len(s)))}
    IN  IF ks = {} THEN <<>>
        ELSE LET k == SetMax(ks)
             IN  << s,
                    SubSeq(s, Len(ge) + 1, Len(ge) + k),
                    SubSeq(s, Len(ge) + k + Len(sep) + 1, Len(s)) >>

\* regexp `^< (.+)$`, FindStringSubmatch: <<whole, group 1>> or <<>>.
fixedRE(s) ==
    LET lt == <<"<", " ">>
    IN  IF /\ HasPrefix(s, lt)
           /\ Len(lt) + 1 <= Len(s)
           /\ Dots(SubSeq(s, Len(lt) + 1, Len(s)))
        THEN << s, SubSeq(s, Len(lt) + 1, Len(s)) >>
        ELSE <<>>

---------------------------------------------------------------------------
(* internal/version *)

Digits == {"0", "1", "2", "3", "4", "5", "6", "7", "8", "9"}

RECURSIVE SplitDots(_)
\* The dot-separated components of s.
SplitDots(s) ==
    IF \A i \in 1..Len(s) : s[i] # "."
    THEN <<s>>
    ELSE LET i == CHOOSE j \in 1..Len(s) :
                      s[j] = "." /\ \A k \in 1..(j - 1) : s[k] # "."
         IN  <<SubSeq(s, 1, i - 1)>> \o SplitDots(SubSeq(s, i + 1, Len(s)))

\* A numeric component: digits, without a leading zero.
IsNumber(s) ==
    /\ Len(s) >= 1
    /\ \A i \in 1..Len(s) : s[i] \in Digits
    /\ (s[1] = "0" => Len(s) = 1)

\* version.IsValid: whether v is a valid (unprefixed) semantic version,
\* MAJOR[.MINOR[.PATCH]].  The version strings of the model carry no
\* pre-release or build suffix.
IsValid(v) ==
    LET parts == SplitDots(v)
    IN  /\ Len(parts) <= 3
        /\ \A i \in 1..Len(parts) : IsNumber(parts[i])

---------------------------------------------------------------------------
(* Range Normalizer: report.VersionRange -> cve5.VersionRange *)

\* The zero value VersionRange{}.
ZeroVersionRange ==
    [Introduced |-> Empty, Fixed |-> Empty, LessThanOrEqual |-> Empty,
     Status |-> Empty, VersionType |-> ""]

RECURSIVE unaffectedRangesEarly(_, _, _)
\* unaffectedRanges taking a range's fixed version before it emits.
unaffectedRangesEarly(versions, current, cveVRs) ==
    IF versions = <<>> THEN cveVRs
    ELSE LET vr == Head(versions)
             current0 == IF vr.Fixed # Empty
                         THEN [current EXCEPT !.Introduced = vr.Fixed]
                         ELSE current
             emitted ==
                 [current0 EXCEPT
                    !.Introduced = IF current0.Introduced = Empty
                                   THEN versionZero ELSE current0.Introduced,
                    !.Fixed = vr.Introduced,
                    !.Status = StatusUnaffected,
                    !.VersionType = typeSemver]
         IN  unaffectedRangesEarly(
                 Tail(versions),
                 IF vr.Introduced # Empty THEN ZeroVersionRange ELSE current0,
                 IF vr.Introduced # Empty THEN Append(cveVRs, emitted) ELSE cveVRs)

RECURSIVE unaffectedRangesKept(_, _, _)
\* unaffectedRanges without a fresh range after an emission.
unaffectedRangesKept(versions, current, cveVRs) ==
    IF versions = <<>> THEN cveVRs
    ELSE LET vr == Head(versions)
             emitted ==
                 [current EXCEPT
                    !.Introduced = IF current.Introduced = Empty
                                   THEN versionZero ELSE current.Introduced,
                    !.Fixed = vr.Introduced,
                    !.Status = StatusUnaffected,
                    !.VersionType = typeSemver]
             current1 == IF vr.Introduced # Empty THEN emitted ELSE current
         IN  unaffectedRangesKept(
                 Tail(versions),
                 IF vr.Fixed # Empty
                 THEN [current1 EXCEPT !.Introduced = vr.Fixed] ELSE current1,
                 IF vr.Introduced # Empty THEN Append(cveVRs, emitted) ELSE cveVRs)

RECURSIVE unaffectedRanges(_, _, _)
\* The loop of the branch "no final fixed version": versions is what is left
\* of the input, current the range under construction, cveVRs the output.
unaffectedRanges(versions, current, cveVRs) ==
    IF versions = <<>> THEN cveVRs
    ELSE LET vr == Head(versions)
             emitted ==
                 [current EXCEPT
                    !.Introduced = IF current.Introduced = Empty
                                   THEN versionZero ELSE current.Introduced,
                    !.Fixed = vr.Introduced,
                    !.Status = StatusUnaffected,
                    !.VersionType = typeSemver]
             cveVRs1 == IF vr.Introduced # Empty
                        THEN Append(cveVRs, emitted) ELSE cveVRs
             current1 == IF vr.Introduced # Empty
                         THEN ZeroVersionRange ELSE current
             current2 == IF vr.Fixed # Empty
                         THEN [current1 EXCEPT !.Introduced = vr.Fixed]
                         ELSE current1
         IN  unaffectedRanges(Tail(versions), current2, cveVRs1)

\* The loop of the branch "express the version ranges normally".
affectedRanges(versions) ==
    [i \in 1..Len(versions) |->
        [Introduced |-> IF versions[i].Introduced # Empty
                        THEN versions[i].Introduced ELSE versionZero,
         Fixed |-> versions[i].Fixed,
         LessThanOrEqual |-> Empty,
         Status |-> StatusAffected,
         VersionType |-> typeSemver]]

\* versionRangeToVersionRange deciding on the first range's fixed version.
versionRangeToVersionRangeFirst(versions) ==
    IF Len(versions) = 0
    THEN [Versions |-> <<>>, DefaultStatus |-> StatusAffected]
    ELSE IF versions[1].Fixed = Empty
    THEN [Versions |-> unaffectedRanges(versions, ZeroVersionRange, <<>>),
          DefaultStatus |-> StatusAffected]
    ELSE [Versions |-> affectedRanges(versions),
          DefaultStatus |-> StatusUnaffected]

versionRangeToVersionRange(versions) ==
    IF Len(versions) = 0
    THEN [Versions |-> <<>>, DefaultStatus |-> StatusAffected]
    ELSE IF versions[Len(versions)].Fixed = Empty
    THEN [Versions |-> unaffectedRanges(versions, ZeroVersionRange, <<>>),
          DefaultStatus |-> StatusAffected]
    ELSE [Versions |-> affectedRanges(versions),
          DefaultStatus |-> StatusUnaffected]

---------------------------------------------------------------------------
(* Range Recoverer: cve5.VersionRange -> report.VersionRange *)

\* toVersionRange keeping an introduced version "0".
toVersionRangeZero(cvr, defaultStatus) ==
    LET m1 == introducedFixedRE(cvr.Introduced)
        m2 == fixedRE(cvr.Introduced)
    IN  IF Len(m1) = 3
        THEN [v |-> [Introduced |-> m1[2], Fixed |-> m1[3]], ok |-> TRUE]
        ELSE IF Len(m2) = 2
        THEN [v |-> [Introduced |-> Empty, Fixed |-> m2[2]], ok |-> TRUE]
        ELSE IF \/ cvr.VersionType # typeSemver
                \/ cvr.LessThanOrEqual # Empty
                \/ ~IsValid(cvr.Introduced)
                \/ ~IsValid(cvr.Fixed)
                \/ cvr.Status # StatusAffected
                \/ defaultStatus # StatusUnaffected
        THEN [v |-> [Introduced |-> Empty, Fixed |-> Empty], ok |-> FALSE]
        ELSE [v |-> [Introduced |-> cvr.Introduced, Fixed |-> cvr.Fixed],
              ok |-> TRUE]

\* toVersionRange repairing only what fails the checks on semver type,
\* status and default status.
toVersionRangeChecked(cvr, defaultStatus) ==
    LET m1 == introducedFixedRE(cvr.Introduced)
        m2 == fixedRE(cvr.Introduced)
    IN  IF \/ cvr.VersionType # typeSemver
           \/ cvr.Status # StatusAffected
           \/ defaultStatus # StatusUnaffected
        THEN [v |-> [Introduced |-> Empty, Fixed |-> Empty], ok |-> FALSE]
        ELSE IF Len(m1) = 3
        THEN [v |-> [Introduced |-> m1[2], Fixed |-> m1[3]], ok |-> TRUE]
        ELSE IF Len(m2) = 2
        THEN [v |-> [Introduced |-> Empty, Fixed |-> m2[2]], ok |-> TRUE]
        ELSE IF \/ cvr.LessThanOrEqual # Empty
                \/ ~IsValid(cvr.Introduced)
                \/ ~IsValid(cvr.Fixed)
        THEN [v |-> [Introduced |-> Empty, Fixed |-> Empty], ok |-> FALSE]
        ELSE [v |-> [Introduced |-> IF cvr.Introduced = versionZero
                                    THEN Empty ELSE cvr.Introduced,
                     Fixed |-> cvr.Fixed],
              ok |-> TRUE]

\* toVersionRange without the check of the default status.
toVersionRangeAnyDefault(cvr, defaultStatus) ==
    LET m1 == introducedFixedRE(cvr.Introduced)
        m2 == fixedRE(cvr.Introduced)
    IN  IF Len(m1) = 3
        THEN [v |-> [Introduced |-> m1[2], Fixed |-> m1[3]], ok |-> TRUE]
        ELSE IF Len(m2) = 2
        THEN [v |-> [Introduced |-> Empty, Fixed |-> m2[2]], ok |-> TRUE]
        ELSE IF \/ cvr.VersionType # typeSemver
                \/ cvr.LessThanOrEqual # Empty
                \/ ~IsValid(cvr.Introduced)
                \/ ~IsValid(cvr.Fixed)
                \/ cvr.Status # StatusAffected
        THEN [v |-> [Introduced |-> Empty, Fixed |-> Empty], ok |-> FALSE]
        ELSE [v |-> [Introduced |-> IF cvr.Introduced = versionZero
                                    THEN Empty ELSE cvr.Introduced,
                     Fixed |-> cvr.Fixed],
              ok |-> TRUE]

\* toVersionRange: [v |-> the range, ok |-> whether there is one].
toVersionRange(cvr, defaultStatus) ==
    LET m1 == introducedFixedRE(cvr.Introduced)
        m2 == fixedRE(cvr.Introduced)
        none == [Introduced |-> Empty, Fixed |-> Empty]
    IN  IF Len(m1) = 3
        THEN [v |-> [Introduced |-> m1[2], Fixed |-> m1[3]], ok |-> TRUE]
        ELSE IF Len(m2) = 2
        THEN [v |-> [Introduced |-> Empty, Fixed |-> m2[2]], ok |-> TRUE]
        ELSE IF \/ cvr.VersionType # typeSemver
                \/ cvr.LessThanOrEqual # Empty
                \/ ~IsValid(cvr.Introduced)
                \/ ~IsValid(cvr.Fixed)
                \/ cvr.Status # StatusAffected
                \/ defaultStatus # StatusUnaffected
        THEN [v |-> none, ok |-> FALSE]
        ELSE [v |-> [Introduced |-> IF cvr.Introduced = versionZero
                                    THEN Empty ELSE cvr.Introduced,
                     Fixed |-> cvr.Fixed],
              ok |-> TRUE]

\* toUnsupported: the text is built by fmt.Sprintf.
toUnsupported(cvr, defaultStatus) ==
    LET version ==
            IF cvr.Fixed # Empty
            THEN cvr.Status \o <<" ", "f", "r", "o", "m", " ">> \o cvr.Introduced
                   \o <<" ", "b", "e", "f", "o", "r", "e", " ">> \o cvr.Fixed
            ELSE IF cvr.LessThanOrEqual # Empty
            THEN cvr.Status \o <<" ", "f", "r", "o", "m", " ">> \o cvr.Introduced
                   \o <<" ", "t", "o", " ">> \o cvr.Fixed
            ELSE cvr.Status \o <<" ", "a", "t", " ">> \o cvr.Introduced
    IN  [Version |-> IF defaultStatus # Empty
                     THEN version
                            \o <<" ", "(", "d", "e", "f", "a", "u", "l", "t", ":", " ">>
                            \o defaultStatus \o <<")">>
                     ELSE version,
         Type |-> "cve_version_range"]

RECURSIVE convertLoopDrop(_, _, _, _)
\* convertLoop dropping the ranges with a lessThanOrEqual bound that it
\* cannot convert.
convertLoopDrop(vrs, defaultStatus, vs, uvs) ==
    IF vrs = <<>> THEN [vs |-> vs, uvs |-> uvs]
    ELSE LET vr == Head(vrs)
             c == toVersionRange(vr, defaultStatus)
         IN  IF vr.Introduced = na \/ (~c.ok /\ vr.LessThanOrEqual # Empty)
             THEN convertLoopDrop(Tail(vrs), defaultStatus, vs, uvs)
             ELSE IF c.ok
             THEN convertLoopDrop(Tail(vrs), defaultStatus, Append(vs, c.v), uvs)
             ELSE convertLoopDrop(Tail(vrs), defaultStatus, vs,
                                  Append(uvs, toUnsupported(vr, defaultStatus)))

RECURSIVE convertLoop(_, _, _, _)
\* The loop of convertVersions over what is left of vrs.
convertLoop(vrs, defaultStatus, vs, uvs) ==
    IF vrs = <<>> THEN [vs |-> vs, uvs |-> uvs]
    ELSE LET vr == Head(vrs)
             c == toVersionRange(vr, defaultStatus)
         IN  IF vr.Introduced = na
             THEN convertLoop(Tail(vrs), defaultStatus, vs, uvs)
             ELSE IF c.ok
             THEN convertLoop(Tail(vrs), defaultStatus, Append(vs, c.v), uvs)
             ELSE convertLoop(Tail(vrs), defaultStatus, vs,
                              Append(uvs, toUnsupported(vr, defaultStatus)))

convertVersions(vrs, defaultStatus) ==
    convertLoop(vrs, defaultStatus, <<>>, <<>>)

---------------------------------------------------------------------------
(* internal/stdlib and internal/report *)

stdModulePath == <<"s", "t", "d">>
ToolchainModulePath == <<"c", "m", "d">>

\* stdlib.Contains: whether the path is in the standard-library namespace,
\* that is, whether its first element holds no dot.
Contains(path) ==
    LET slashes == {i \in 1..Len(path) : path[i] = "/"}
        first == IF slashes = {} THEN path
                 ELSE SubSeq(path, 1, (CHOOSE i \in slashes :
                                         \A j \in slashes : i <= j) - 1)
    IN  \A i \in 1..Len(first) : first[i] # "."

\* report.Vendor: the vendor name published for a module.
Vendor(module) ==
    IF module = stdModulePath
    THEN <<"G", "o", " ", "s", "t", "a", "n", "d", "a", "r", "d", " ",
           "l", "i", "b", "r", "a", "r", "y">>
    ELSE IF module = ToolchainModulePath
    THEN <<"G", "o", " ", "t", "o", "o", "l", "c", "h", "a", "i", "n">>
    ELSE module

\* (*Package).AllSymbols: the listed symbols, then the derived ones.
AllSymbols(p) == p.Symbols \o p.DerivedSymbols

\* (*Report).AddCVE: a CVE issued by the Go CNA becomes the report's
\* cve_metadata, any other is listed among its CVEs.
AddCVE(rep, cveID, cwe, isGoCNA) ==
    IF isGoCNA
    THEN [rep EXCEPT !.CVEMetadata = <<[ID |-> cveID, CWE |-> cwe]>>]
    ELSE [rep EXCEPT !.CVEs = Append(rep.CVEs, cveID)]

---------------------------------------------------------------------------
(* Path Resolver and Record Disassembler *)

isSet(s) == s # Empty /\ s # na

\* resolvedPath preferring the product to the package name.
resolvedPathProduct(a, hint) ==
    IF isSet(a.Product) THEN a.Product
    ELSE IF isSet(a.PackageName) THEN a.PackageName
    ELSE IF isSet(a.Vendor) THEN a.Vendor
    ELSE hint

\* The switch of affectedToModule.
resolvedPath(a, hint) ==
    IF isSet(a.PackageName) THEN a.PackageName
    ELSE IF isSet(a.Product) THEN a.Product
    ELSE IF isSet(a.Vendor) THEN a.Vendor
    ELSE hint

\* The package path after the suffix check.
packagePath(a, hint) ==
    IF HasSuffix(hint, resolvedPath(a, hint)) THEN hint
    ELSE resolvedPath(a, hint)

affectedToModule(a, hint) ==
    LET pkgPath == packagePath(a, hint)
        module == IF Contains(pkgPath)
                  THEN IF HasPrefix(pkgPath, ToolchainModulePath)
                       THEN ToolchainModulePath ELSE stdModulePath
                  ELSE hint
        symbols == [i \in 1..Len(a.ProgramRoutines) |-> a.ProgramRoutines[i].Name]
        c == convertVersions(a.Versions, a.DefaultStatus)
    IN  [Module |-> module,
         Versions |-> c.vs,
         UnsupportedVersions |-> c.uvs,
         Packages |-> <<[Package |-> pkgPath, Symbols |-> symbols,
                         GOOS |-> a.Platforms]>>]

affectedToModules(as, hint) ==
    IF Len(as) = 0
    THEN <<[Module |-> hint, Versions |-> <<>>, UnsupportedVersions |-> <<>>,
            Packages |-> <<>>]>>
    ELSE [i \in 1..Len(as) |-> affectedToModule(as[i], hint)]

getCWE5(c) ==
    IF Len(c.ProblemTypes) = 0 \/ Len(c.ProblemTypes[1].Descriptions) = 0
    THEN ""
    ELSE c.ProblemTypes[1].Descriptions[1].Description

isGoCNA5(c) == c.ProviderMetadata.OrgID = GoOrgUUID

cve5ToReport(c, hint) ==
    LET cna == c.Containers.CNAContainer
    IN  AddCVE([Modules |-> affectedToModules(cna.Affected, hint),
                CVEMetadata |-> <<>>, CVEs |-> <<>>],
               c.Metadata.ID, getCWE5(cna), isGoCNA5(cna))

---------------------------------------------------------------------------
(* Record Assembler *)

\* The Affected entries of one module: one per package.
moduleAffected(m) ==
    LET n == versionRangeToVersionRange(m.Versions)
    IN  [i \in 1..Len(m.Packages) |->
            [Vendor |-> Vendor(m.Module),
             Product |-> m.Packages[i].Package,
             CollectionURL |-> "https://pkg.go.dev",
             PackageName |-> m.Packages[i].Package,
             Versions |-> n.Versions,
             DefaultStatus |-> n.DefaultStatus,
             Platforms |-> m.Packages[i].GOOS,
             ProgramRoutines |->
                 [j \in 1..Len(AllSymbols(m.Packages[i])) |->
                     [Name |-> AllSymbols(m.Packages[i])[j]]]]]

RECURSIVE allAffected(_)
\* The loop of FromReport over the modules.
allAffected(modules) ==
    IF modules = <<>> THEN <<>>
    ELSE moduleAffected(Head(modules)) \o allAffected(Tail(modules))

\* derrors.Wrap as deferred by FromReport.
wrapped(rep, msg) ==
    <<[Op |-> "FromReport", ID |-> rep.ID, Msg |-> msg]>>

\* The record that FromReport builds of a report with its required fields.
newRecord(rep) ==
    [DataType |-> "CVE_RECORD",
     DataVersion |-> "5.0",
     Metadata |-> [ID |-> rep.CVEMetadata[1].ID],
     Containers |->
       [CNAContainer |->
          [ProviderMetadata |-> [OrgID |-> GoOrgUUID],
           ProblemTypes |->
              <<[Descriptions |->
                   <<[Lang |-> "en",
                      Description |-> rep.CVEMetadata[1].CWE]>>]>>,
           Affected |-> allAffected(rep.Modules)]]]

\* FromReport without the check of the CWE.
FromReportNoCWE(rep) ==
    IF rep.CVEMetadata = <<>>
    THEN [cve |-> <<>>, err |-> wrapped(rep, "report missing cve_metadata section")]
    ELSE IF rep.CVEMetadata[1].ID = ""
    THEN [cve |-> <<>>, err |-> wrapped(rep, "report missing CVE ID")]
    ELSE [cve |-> <<newRecord(rep)>>, err |-> <<>>]

\* FromReport: [cve |-> the record or nil, err |-> the error or nil].
FromReport(rep) ==
    IF rep.CVEMetadata = <<>>
    THEN [cve |-> <<>>, err |-> wrapped(rep, "report missing cve_metadata section")]
    ELSE IF rep.CVEMetadata[1].ID = ""
    THEN [cve |-> <<>>, err |-> wrapped(rep, "report missing CVE ID")]
    ELSE IF rep.CVEMetadata[1].CWE = ""
    THEN [cve |-> <<>>, err |-> wrapped(rep, "report missing CWE")]
    ELSE [cve |-> <<newRecord(rep)>>, err |-> <<>>]

---------------------------------------------------------------------------
(* Inputs *)

\* Longest list of version ranges of a report module.
MaxLen == 3
\* Longest list of version ranges of a fetched record's affected entry.
MaxRanges == 3
\* Most modules of a report.
MaxModules == 2

SeqsUpTo(S, n) == UNION {[1..k -> S] : k \in 0..n}

\* Bounds of a report's version ranges: unset, "0" and two versions.
ReportVersions == {Empty, versionZero, V120, V130}

ReportRanges == [Introduced : ReportVersions, Fixed : ReportVersions]

\* Valid versions in increasing order, for the chronological sequences.
Ordered == <<versionZero, V100, V120, V130, V200, V300>>

Rank(v) == CHOOSE i \in 1..Len(Ordered) : Ordered[i] = v

\* Chronologically ordered, non-overlapping ranges: only the first may have
\* no introduced version, only the last may have no fixed version.
Chronological(vs) ==
    /\ \A i \in 1..Len(vs) :
          /\ vs[i].Introduced = Empty => i = 1
          /\ vs[i].Fixed = Empty => i = Len(vs)
          /\ (vs[i].Introduced # Empty /\ vs[i].Fixed # Empty)
                => Rank(vs[i].Introduced) < Rank(vs[i].Fixed)
    /\ \A i \in 1..(Len(vs) - 1) :
          vs[i + 1].Introduced # Empty /\ vs[i].Fixed # Empty
          /\ Rank(vs[i].Fixed) <= Rank(vs[i + 1].Introduced)

OrderedVersions == {Empty} \cup {Ordered[i] : i \in 1..Len(Ordered)}

RECURSIVE ChronologicalOfLen(_)
\* The chronological lists of n ranges: each extends one of n - 1 ranges.
ChronologicalOfLen(n) ==
    IF n = 0 THEN {<<>>}
    ELSE {vs \in {Append(head, last) :
                     head \in ChronologicalOfLen(n - 1),
                     last \in [Introduced : OrderedVersions, Fixed : OrderedVersions]} :
            Chronological(vs)}

ChronologicalLists == UNION {ChronologicalOfLen(n) : n \in 0..MaxLen}

onePackage ==
    [Package |-> PathFooBar, Symbols |-> <<"Parse">>,
     DerivedSymbols |-> <<"Decode">>, GOOS |-> <<"linux">>]

otherPackage ==
    [Package |-> PathOther, Symbols |-> <<>>, DerivedSymbols |-> <<>>,
     GOOS |-> <<>>]

goodMetadata == <<[ID |-> "CVE-2024-0001", CWE |-> "CWE-79"]>>

\* Reports with one module of one package, for every list of version ranges.
VersionReports ==
    {[ID |-> "GO-2024-0001", CVEMetadata |-> goodMetadata,
      Modules |-> <<[Module |-> PathFooBar, Versions |-> vs,
                     Packages |-> <<onePackage>>]>>] :
        vs \in SeqsUpTo(ReportRanges, MaxLen) \cup ChronologicalLists}

MetadataModules ==
    {[Module |-> PathFooBar, Versions |-> <<>>, Packages |-> <<>>],
     [Module |-> PathFooBar,
      Versions |-> <<[Introduced |-> V120, Fixed |-> Empty]>>,
      Packages |-> <<onePackage>>],
     [Module |-> stdModulePath,
      Versions |-> <<[Introduced |-> Empty, Fixed |-> V130]>>,
      Packages |-> <<onePackage, otherPackage>>]}

\* Reports with and without the required fields.
MetadataReports ==
    {[ID |-> "GO-2024-0002", CVEMetadata |-> md, Modules |-> ms] :
        md \in {<<>>} \cup {<<[ID |-> i, CWE |-> c]>> :
                              i \in {"", "CVE-2024-0002"}, c \in {"", "CWE-79"}},
        ms \in SeqsUpTo(MetadataModules, MaxModules)}

Reports == VersionReports \cup MetadataReports

fetched(orgID, affected) ==
    [DataType |-> "CVE_RECORD",
     DataVersion |-> "5.0",
     Metadata |-> [ID |-> "CVE-2024-0003"],
     Containers |->
       [CNAContainer |->
          [ProviderMetadata |-> [OrgID |-> orgID],
           ProblemTypes |-> <<>>,
           Affected |-> affected]]]

entry(packageName, product, vendor, versions, defaultStatus) ==
    [Vendor |-> vendor, Product |-> product, CollectionURL |-> "",
     PackageName |-> packageName, Versions |-> versions,
     DefaultStatus |-> defaultStatus, Platforms |-> <<>>,
     ProgramRoutines |-> <<[Name |-> "Parse"]>>]

\* Version ranges as they are found in published records.
FetchedRanges ==
    [Introduced : {Empty, versionZero, na, V100, VBad,
                   PatA, PatB, PatAA, PatANoB, PatLE},
     Fixed : {Empty, V200, VBad},
     LessThanOrEqual : {Empty, V130},
     Status : {StatusAffected, StatusUnaffected},
     VersionType : {typeSemver, "git"}]

DefaultStatuses == {StatusAffected, StatusUnaffected, Empty}

\* Records of one affected entry with one version range.
RangeRecords ==
    {fetched("other", <<entry(PathFooBar, Empty, Empty, <<vr>>, ds)>>) :
        vr \in FetchedRanges, ds \in DefaultStatuses}

range(introduced, fixed, lessThanOrEqual, status) ==
    [Introduced |-> introduced, Fixed |-> fixed,
     LessThanOrEqual |-> lessThanOrEqual, Status |-> status,
     VersionType |-> typeSemver]

ListRanges ==
    {range(na, Empty, Empty, StatusAffected),
     range(PatA, Empty, Empty, StatusAffected),
     range(PatB, V200, Empty, StatusUnaffected),
     range(V100, V200, Empty, StatusAffected),
     range(versionZero, V120, Empty, StatusAffected),
     range(V100, Empty, V130, StatusAffected),
     range(V120, V130, Empty, StatusUnaffected)}

\* Records of one affected entry with a list of version ranges.
ListRecords ==
    {fetched(GoOrgUUID, <<entry(PathFooBar, Empty, Empty, vrs, ds)>>) :
        vrs \in SeqsUpTo(ListRanges, MaxRanges),
        ds \in {StatusAffected, StatusUnaffected}}

PathNames == {Empty, na, PathFooBar, SufBar, PathOther, PathHTTP, PathCmdGo}

\* Records of one affected entry, for every naming of the package.
PathRecords ==
    {fetched("other", <<entry(pn, pr, vn, <<>>, StatusUnaffected)>>) :
        pn \in PathNames, pr \in PathNames, vn \in PathNames}

Records ==
    RangeRecords \cup ListRecords \cup PathRecords
        \cup {fetched("other", <<>>)}

Hints == {PathFooBar, PathFoo, Empty}

---------------------------------------------------------------------------
(* The two translations *)

\* A report to publish, or a record that was fetched.
Init ==
    /\ err = <<>>
    /\ out = <<>>
    /\ \/ /\ pc = "report"
          /\ r \in {<<rep>> : rep \in Reports}
          /\ cve = <<>>
          /\ modulePath = PathFooBar
       \/ /\ pc = "fetched"
          /\ r = <<>>
          /\ cve \in {<<c>> : c \in Records}
          /\ modulePath \in Hints

\* cve5.FromReport(r)
CallFromReport ==
    /\ pc = "report"
    /\ cve' = FromReport(r[1]).cve
    /\ err' = FromReport(r[1]).err
    /\ pc' = IF FromReport(r[1]).err = <<>> THEN "assembled" ELSE "failed"
    /\ UNCHANGED <<r, modulePath, out>>

\* (*CVERecord).ToReport(modulePath), on a fetched record or on the record
\* that FromReport built.
ToReport ==
    /\ pc \in {"fetched", "assembled"}
    /\ out' = <<cve5ToReport(cve[1], modulePath)>>
    /\ pc' = "disassembled"
    /\ UNCHANGED <<r, cve, err, modulePath>>

Next == CallFromReport \/ ToReport

Spec == Init /\ [][Next]_vars

---------------------------------------------------------------------------
(* Range Normalizer: properties *)

\* The report is one of VersionReports and FromReport has built its record.
Normalized ==
    /\ pc \in {"assembled", "disassembled"}
    /\ r # <<>>
    /\ r[1].ID = "GO-2024-0001"

\* The module's version ranges, the affected entry built from them, and the
\* module recovered from that entry.
inputVersions == r[1].Modules[1].Versions
builtEntry == cve[1].Containers.CNAContainer.Affected[1]
recoveredModule == out[1].Modules[1]

\* A version that a round trip gives back: a valid version other than "0".
Plain(v) == IsValid(v) /\ v # versionZero

WellFormed(vs) ==
    \A i \in 1..Len(vs) :
        /\ Plain(vs[i].Fixed)
        /\ vs[i].Introduced = Empty \/ Plain(vs[i].Introduced)

Points == 1..(Len(Ordered) + 1)

InternalAffected(vs, p) ==
    \E i \in 1..Len(vs) :
        /\ vs[i].Introduced = Empty \/ Rank(vs[i].Introduced) <= p
        /\ vs[i].Fixed = Empty \/ p < Rank(vs[i].Fixed)

\* The versions affected according to an affected entry: a version in an
\* explicit range [introduced, fixed) has that range's status, any other
\* the default status.
ExternalAffected(a, p) ==
    LET covering == {i \in 1..Len(a.Versions) :
                        /\ Rank(a.Versions[i].Introduced) <= p
                        /\ p < Rank(a.Versions[i].Fixed)}
    IN  IF covering = {} THEN a.DefaultStatus = StatusAffected
        ELSE \A i \in covering : a.Versions[i].Status = StatusAffected

IsChronological(vs) ==
    /\ \A i \in 1..Len(vs) :
          vs[i].Introduced \in OrderedVersions /\ vs[i].Fixed \in OrderedVersions
    /\ Chronological(vs)

\* C2 as stated: for every chronologically ordered, non-overlapping list of
\* ranges the affected entry built by versionRangeToVersionRange denotes
\* exactly the versions in the union of the ranges of the list.
C2_VersionSetAnyList ==
    (Normalized /\ IsChronological(inputVersions))
        => \A p \in Points :
              ExternalAffected(builtEntry, p) <=> InternalAffected(inputVersions, p)

\* C2 amended: for every non-empty chronologically ordered, non-overlapping
\* list of ranges the affected entry built by versionRangeToVersionRange
\* denotes exactly the versions in the union of the ranges of the list.
C2_VersionSetPreserved ==
    (Normalized /\ Len(inputVersions) > 0 /\ IsChronological(inputVersions))
        => \A p \in Points :
              ExternalAffected(builtEntry, p) <=> InternalAffected(inputVersions, p)

\* Three ranges with an open tail were translated.
C2_Witness ==
    /\ Normalized
    /\ IsChronological(inputVersions)
    /\ Len(inputVersions) = 3
    /\ inputVersions[1].Introduced = Empty
    /\ inputVersions[3].Fixed = Empty
    /\ Len(builtEntry.Versions) = 2

Opposite(status) ==
    IF status = StatusAffected THEN StatusUnaffected ELSE StatusAffected

\* C3: no ranges give default status Affected and no external range; else
\* the default status is Affected exactly when the last range has no fixed
\* version and Unaffected otherwise; every external range has the opposite
\* status.
C3_DefaultStatus ==
    Normalized =>
        /\ Len(inputVersions) = 0 =>
              /\ builtEntry.DefaultStatus = StatusAffected
              /\ builtEntry.Versions = <<>>
        /\ Len(inputVersions) > 0 =>
              IF inputVersions[Len(inputVersions)].Fixed = Empty
              THEN builtEntry.DefaultStatus = StatusAffected
              ELSE builtEntry.DefaultStatus = StatusUnaffected
        /\ \A i \in 1..Len(builtEntry.Versions) :
              builtEntry.Versions[i].Status = Opposite(builtEntry.DefaultStatus)

\* A closed last range after an open first one: the default is Unaffected.
C3_Witness ==
    /\ Normalized
    /\ Len(inputVersions) = 2
    /\ inputVersions[1].Fixed = Empty
    /\ inputVersions[2].Fixed # Empty
    /\ builtEntry.DefaultStatus = StatusUnaffected
    /\ Len(builtEntry.Versions) = 2

\* The positions of the ranges with an introduced version, and the k-th.
Starts(vs) == {i \in 1..Len(vs) : vs[i].Introduced # Empty}

Start(vs, k) ==
    CHOOSE i \in Starts(vs) : Cardinality({j \in Starts(vs) : j <= i}) = k

\* The last fixed version among the ranges from..to, or "0".
LastFixed(vs, from, to) ==
    LET fixes == {i \in from..to : vs[i].Fixed # Empty}
    IN  IF fixes = {} THEN versionZero ELSE vs[SetMax(fixes)].Fixed

\* C4: when the last range has no fixed version, one Unaffected semver range
\* is emitted per range with an introduced version, in order; it ends at
\* that introduced version and starts at the last fixed version met since
\* the range of the previous emission (included), or at "0".  The ranges
\* [{"", 1.2.0}, {1.3.0, ""}] give exactly {1.2.0, 1.3.0, Unaffected}.
C4_OpenTail ==
    (/\ Normalized
     /\ Len(inputVersions) > 0
     /\ inputVersions[Len(inputVersions)].Fixed = Empty)
        => /\ Len(builtEntry.Versions) = Cardinality(Starts(inputVersions))
           /\ \A k \in 1..Len(builtEntry.Versions) :
                 LET e == builtEntry.Versions[k]
                     at == Start(inputVersions, k)
                     from == IF k = 1 THEN 1 ELSE Start(inputVersions, k - 1)
                 IN  /\ e.Status = StatusUnaffected
                     /\ e.VersionType = typeSemver
                     /\ e.LessThanOrEqual = Empty
                     /\ e.Fixed = inputVersions[at].Introduced
                     /\ e.Introduced = LastFixed(inputVersions, from, at - 1)
           /\ inputVersions = <<[Introduced |-> Empty, Fixed |-> V120],
                                [Introduced |-> V130, Fixed |-> Empty]>>
                 => builtEntry.Versions =
                       <<[Introduced |-> V120, Fixed |-> V130,
                          LessThanOrEqual |-> Empty,
                          Status |-> StatusUnaffected,
                          VersionType |-> typeSemver]>>

\* The ranges [{"", 1.2.0}, {1.3.0, ""}] were translated to one range.
C4_Witness ==
    /\ Normalized
    /\ inputVersions = <<[Introduced |-> Empty, Fixed |-> V120],
                         [Introduced |-> V130, Fixed |-> Empty]>>
    /\ Len(builtEntry.Versions) = 1
    /\ builtEntry.DefaultStatus = StatusAffected

---------------------------------------------------------------------------
(* Range Recoverer, Path Resolver and Record Assembler: properties *)

\* ToReport has run; the affected entries it read and the modules it built.
Disassembled == pc = "disassembled"
entries == cve[1].Containers.CNAContainer.Affected
modules == out[1].Modules

\* The k-th position of a set of positions.
Nth(S, k) == CHOOSE i \in S : Cardinality({j \in S : j <= i}) = k

\* C5: every range whose introduced is not "n/a" gives one report range or
\* one UnsupportedVersion note, never both, never neither; ranges with
\* introduced "n/a" give nothing; both outputs keep the order of the input.
C5_DegradeNotDrop ==
    Disassembled =>
        \A e \in 1..Len(entries) :
            LET vrs == entries[e].Versions
                ds == entries[e].DefaultStatus
                kept == {i \in 1..Len(vrs) : vrs[i].Introduced # na}
                conv == {i \in kept : toVersionRange(vrs[i], ds).ok}
                vs == modules[e].Versions
                uvs == modules[e].UnsupportedVersions
            IN  /\ Len(vs) + Len(uvs) = Len(vrs) - Cardinality((1..Len(vrs)) \ kept)
                /\ Len(vs) = Cardinality(conv)
                /\ Len(uvs) = Cardinality(kept \ conv)
                /\ \A k \in 1..Len(vs) :
                      vs[k] = toVersionRange(vrs[Nth(conv, k)], ds).v
                /\ \A k \in 1..Len(uvs) :
                      uvs[k] = toUnsupported(vrs[Nth(kept \ conv, k)], ds)

\* Of three ranges, the one with introduced "n/a" was skipped, one was
\* converted and the one with a lessThanOrEqual bound became a note.
C5_Witness ==
    /\ Disassembled
    /\ Len(entries) = 1
    /\ Len(entries[1].Versions) = 3
    /\ entries[1].Versions[1].LessThanOrEqual # Empty
    /\ entries[1].Versions[2].Introduced = na
    /\ Len(modules[1].Versions) = 1
    /\ Len(modules[1].UnsupportedVersions) = 1

\* The ways to read s as ">= A, < B" with non-empty A and B.
Splits(s) ==
    {ab \in {<<SubSeq(s, 4, i), SubSeq(s, i + 5, Len(s))>> : i \in 4..(Len(s) - 5)} :
        s = <<">", "=", " ">> \o ab[1] \o <<",", " ", "<", " ">> \o ab[2]}

\* Whether s reads as "< B" with non-empty B.
IsUpperBound(s) == Len(s) >= 3 /\ s[1] = "<" /\ s[2] = " "

\* An affected entry of a single version range: the range, its introduced
\* bound, and what became of it.
Single(e) == Disassembled /\ e \in 1..Len(entries) /\ Len(entries[e].Versions) = 1

C7_RequiredFields ==
    (r # <<>> /\ pc # "report") =>
        IF \/ r[1].CVEMetadata = <<>>
           \/ r[1].CVEMetadata[1].ID = ""
           \/ r[1].CVEMetadata[1].CWE = ""
        THEN err # <<>> /\ cve = <<>>
        ELSE /\ err = <<>>
             /\ Len(cve) = 1
             /\ cve[1].DataType = "CVE_RECORD"
             /\ cve[1].DataVersion = "5.0"
             /\ cve[1].Metadata.ID = r[1].CVEMetadata[1].ID

\* A report of two modules with a CVE ID and without CWE was refused.
C7_Witness ==
    /\ pc = "failed"
    /\ r[1].CVEMetadata # <<>>
    /\ r[1].CVEMetadata[1].ID # ""
    /\ r[1].CVEMetadata[1].CWE = ""
    /\ Len(r[1].Modules) = 2
    /\ err # <<>>
    /\ cve = <<>>

\* Whether s is a trailing part of h.
IsTrailing(h, s) == \E k \in 0..Len(h) : SubSeq(h, k + 1, Len(h)) = s

\* C8: the package path is the first of package name, product and vendor
\* that is set and not "n/a", or the module path hint; when that path is a
\* trailing part of the hint (or the hint itself) the package path is the
\* hint; with no name set the package path is the hint.
C8_PackagePath ==
    Disassembled =>
        \A e \in 1..Len(entries) :
            LET names == <<entries[e].PackageName, entries[e].Product,
                           entries[e].Vendor>>
                set == {i \in 1..3 : names[i] # Empty /\ names[i] # na}
                resolved == IF set = {} THEN modulePath ELSE names[Nth(set, 1)]
                pkgPath == modules[e].Packages[1].Package
            IN  /\ pkgPath = IF IsTrailing(modulePath, resolved)
                             THEN modulePath ELSE resolved
                /\ set = {} => pkgPath = modulePath

\* The product "foo/bar" was resolved against the hint
\* "golang.org/x/foo/bar", the package name being "n/a".
C8_Witness ==
    /\ Disassembled
    /\ Len(entries) = 1
    /\ entries[1].PackageName = na
    /\ entries[1].Product = SufBar
    /\ entries[1].Vendor = PathOther
    /\ modulePath = PathFooBar
    /\ modules[1].Packages[1].Package = PathFooBar

\* C9: a range whose introduced is not "n/a" and matches no repair pattern
\* is converted exactly when its version type is semver, it has no
\* lessThanOrEqual, introduced and fixed are valid versions, its status is
\* Affected and the default status is Unaffected; the report range has the
\* same fixed and the same introduced, "0" becoming unset.  Every other
\* such range becomes an UnsupportedVersion note.
C9_DirectAcceptance ==
    \A e \in 1..(IF Disassembled THEN Len(entries) ELSE 0) :
        LET vr == entries[e].Versions[1]
            vs == modules[e].Versions
            uvs == modules[e].UnsupportedVersions
        IN  (/\ Single(e)
             /\ vr.Introduced # na
             /\ Splits(vr.Introduced) = {}
             /\ ~IsUpperBound(vr.Introduced))
                => IF /\ vr.VersionType = typeSemver
                      /\ vr.LessThanOrEqual = Empty
                      /\ IsValid(vr.Introduced)
                      /\ IsValid(vr.Fixed)
                      /\ vr.Status = StatusAffected
                      /\ entries[e].DefaultStatus = StatusUnaffected
                   THEN /\ uvs = <<>>
                        /\ vs = <<[Introduced |-> IF vr.Introduced = versionZero
                                                  THEN Empty ELSE vr.Introduced,
                                   Fixed |-> vr.Fixed]>>
                   ELSE vs = <<>> /\ Len(uvs) = 1

\* A well-formed Affected range became a note because the default status is
\* Affected.
C9_Witness ==
    /\ Single(1)
    /\ entries[1].Versions[1] = range(V100, V200, Empty, StatusAffected)
    /\ entries[1].DefaultStatus = StatusAffected
    /\ modules[1].Versions = <<>>
    /\ Len(modules[1].UnsupportedVersions) = 1

\* The note text that C10 states for a range.
statedNote(vr, ds) ==
    LET text ==
            IF vr.Fixed # Empty
            THEN vr.Status \o <<" ", "f", "r", "o", "m", " ">> \o vr.Introduced
                   \o <<" ", "b", "e", "f", "o", "r", "e", " ">> \o vr.Fixed
            ELSE IF vr.LessThanOrEqual # Empty
            THEN vr.Status \o <<" ", "f", "r", "o", "m", " ">> \o vr.Introduced
                   \o <<" ", "t", "o", " ">> \o vr.LessThanOrEqual
            ELSE vr.Status \o <<" ", "a", "t", " ">> \o vr.Introduced
    IN  IF ds = Empty THEN text
        ELSE text \o <<" ", "(", "d", "e", "f", "a", "u", "l", "t", ":", " ">>
               \o ds \o <<")">>

\* C10: the text of the note of a degraded range is "<status> from
\* <introduced> before <fixed>" when fixed is set, else "<status> from
\* <introduced> to <lessThanOrEqual>" when lessThanOrEqual is set, else
\* "<status> at <introduced>", followed by " (default: <defaultStatus>)"
\* when the default status is set.
C10_NoteText ==
    \A e \in 1..(IF Disassembled THEN Len(entries) ELSE 0) :
        (Single(e) /\ Len(modules[e].UnsupportedVersions) = 1)
            => modules[e].UnsupportedVersions[1].Version
                  = statedNote(entries[e].Versions[1], entries[e].DefaultStatus)

===========================================================================
